---------------------------- MODULE Spec2Model ----------------------------
(* A model of S3Generator                                                  *)
(* (great_expectations/datasource/generator/s3_generator.py).              *)
(*                                                                         *)
(* Python values are represented as follows:                               *)
(*   str            a sequence of one-character strings                    *)
(*   dict           a function whose DOMAIN is the set of keys present     *)
(*   None / absent  the empty tuple <<>>, a present value v is <<v>>       *)
(*   a generator    a record holding the frame's local variables and the   *)
(*                  position it is suspended at                            *)
(* A step of a generator is everything it executes between two yields.     *)
EXTENDS Integers, Sequences, FiniteSets, TLC

VARIABLES bucket, reader_options, reader_method, assets, max_keys,
          iterators, s3, gens, last

vars == <<bucket, reader_options, reader_method, assets, max_keys,
          iterators, s3, gens, last>>

(* ------------------------------ bounds -------------------------------- *)

\* the largest number of entries (objects and common prefixes) in the bucket
MaxEntries == 3

\* the generator-level max_keys (page size); assets override it with 1
MaxPageSize == 2

(* --------------------------- small helpers ---------------------------- *)

None == <<>>

Some(v) == <<v>>

Min(a, b) == IF a < b THEN a ELSE b

\* dict.get(k, default)
Get(d, k, default) == IF k \in DOMAIN d THEN d[k] ELSE default

\* d.update(e): the entries of e override those of d
Update(d, e) == [k \in (DOMAIN d) \cup (DOMAIN e) |-> IF k \in DOMAIN e THEN e[k] ELSE d[k]]

EmptyDict == [k \in {} |-> None]

\* [x for x in s if P(x)]
RECURSIVE SelectSeqIdx(_, _, _)
SelectSeqIdx(s, keep, i) ==
    IF i > Len(s) THEN <<>>
    ELSE (IF i \in keep THEN <<s[i]>> ELSE <<>>) \o SelectSeqIdx(s, keep, i + 1)

\* str.startswith
StartsWith(s, p) == Len(p) <= Len(s) /\ SubSeq(s, 1, Len(p)) = p

(* ------------------------------ regex --------------------------------- *)
\* A pattern is a sequence of atoms: a literal character, the wildcard
\* dot (any), dot-star (star) and a capturing group around dot-star (group).

Lit(c) == [t |-> "lit", c |-> c]
AnyChar == [t |-> "any", c |-> "."]
Star == [t |-> "star", c |-> ".*"]
Group == [t |-> "group", c |-> "(.*)"]

NoMatch == [ok |-> FALSE, groups |-> <<>>]

\* re.match(p, s): p must match at the start of s (not the whole of s);
\* ".*" is greedy.  The result carries the captured groups.
RECURSIVE re_match(_, _)
re_match(p, s) ==
    IF p = <<>> THEN [ok |-> TRUE, groups |-> <<>>]
    ELSE IF p[1].t \in {"star", "group"}
    THEN LET fits == {k \in 0..Len(s) : re_match(Tail(p), SubSeq(s, k + 1, Len(s))).ok}
         IN  IF fits = {} THEN NoMatch
             ELSE LET k == CHOOSE x \in fits : \A y \in fits : y <= x
                      rest == re_match(Tail(p), SubSeq(s, k + 1, Len(s)))
                  IN  [ok |-> TRUE,
                       groups |-> (IF p[1].t = "group" THEN <<SubSeq(s, 1, k)>> ELSE <<>>)
                                  \o rest.groups]
    ELSE IF s = <<>> THEN NoMatch
    ELSE IF p[1].t = "any" \/ p[1].c = s[1] THEN re_match(Tail(p), Tail(s))
    ELSE NoMatch

\* the default regex_filter ".*"
MatchAll == <<Star>>

(* ------------------------- the storage backend ------------------------ *)
(* The bucket is the lexicographically ordered listing S3 keeps: each     *)
(* entry is an object (Key, Size) or a common prefix under the delimiter. *)

Obj(k, n) == [kind |-> "obj", Key |-> k, Size |-> n]
Pre(k) == [kind |-> "pre", Key |-> k, Size |-> 0]

Universe ==
    << Obj(<<"a", "/", "1">>, 2),
       Obj(<<"a", "/", "2">>, 1),
       Obj(<<"a", "/", "3">>, 0),
       Pre(<<"a", "/", "d", "/">>),
       Obj(<<"b", "/", "1">>, 4) >>

\* every listing of at most MaxEntries entries, in the bucket's order
Listings ==
    {SelectSeqIdx(Universe, keep, 1) :
        keep \in {k \in SUBSET (1..Len(Universe)) : Cardinality(k) <= MaxEntries}}

\* the entries of the bucket under a prefix
Under(listing, prefix) ==
    SelectSeqIdx(listing, {i \in 1..Len(listing) : StartsWith(listing[i].Key, prefix)}, 1)

\* the objects and the common prefixes among the entries of a page
Objects(page) == SelectSeqIdx(page, {i \in 1..Len(page) : page[i].kind = "obj"}, 1)
Prefixes(page) == SelectSeqIdx(page, {i \in 1..Len(page) : page[i].kind = "pre"}, 1)

\* the response: "Contents", "CommonPrefixes" and "NextContinuationToken"
\* are present only when there is something to report
Response(objs, pres, trunc, stop) ==
    Update(Update(Update([k \in {"IsTruncated"} |-> trunc],
                         [k \in (IF trunc THEN {"NextContinuationToken"} ELSE {}) |-> stop]),
                  [k \in (IF objs # <<>> THEN {"Contents"} ELSE {}) |->
                      [i \in 1..Len(objs) |-> [Key |-> objs[i].Key, Size |-> objs[i].Size]]]),
           [k \in (IF pres # <<>> THEN {"CommonPrefixes"} ELSE {}) |->
               [i \in 1..Len(pres) |-> [Prefix |-> pres[i].Key]]])

\* the page of the entries start+1 .. stop
PageOf(under, start, stop) ==
    Response(Objects(SubSeq(under, start + 1, stop)), Prefixes(SubSeq(under, start + 1, stop)),
             stop < Len(under), stop)

\* list_objects_v2(Bucket, Delimiter, Prefix, MaxKeys, [ContinuationToken]):
\* one page of at most MaxKeys entries under Prefix, starting at the token
\* (the number of entries already listed)
PageFrom(under, start, n) == PageOf(under, start, Min(start + n, Len(under)))

list_objects_v2(listing, query) ==
    PageFrom(Under(listing, query.Prefix),
             IF "ContinuationToken" \in DOMAIN query THEN query.ContinuationToken ELSE 0,
             query.MaxKeys)

(* ----------------------------- configuration ------------------------- *)

Names == {"a1", "a2", "zz"}

\* S3Generator.__init__: reader_options, bucket, delimiter, reader_method
GenReaderOptions == [sep |-> ","]

BucketName == <<"b", "k">>

DefaultDelimiter == <<"/">>

\* asset configurations, as the dictionaries of the assets mapping
CfgPlain == [prefix |-> <<"a", "/">>]

CfgFiltered == [prefix |-> <<>>, max_keys |-> 1,
                regex_filter |-> <<AnyChar, Lit("/"), Lit("1"), Star>>,
                reader_method |-> "csv", reader_options |-> [header |-> "N"]]

CfgDirectory == [prefix |-> <<"a", "/">>, directory_assets |-> TRUE,
                 reader_options |-> [sep |-> ";"]]

CfgOther == [prefix |-> <<>>, regex_filter |-> MatchAll, max_keys |-> 1,
             partition_regex |-> <<Lit("b"), Lit("/"), Group>>]

\* the asset registries tried; "zz" is registered in none of them
Registries ==
    { [n \in {"a1", "a2"} |-> IF n = "a1" THEN CfgPlain ELSE CfgFiltered],
      [n \in {"a1", "a2"} |-> IF n = "a1" THEN CfgDirectory ELSE CfgOther] }

\* the (reader_options, limit) arguments tried
CallArgs == {<<None, None>>, <<Some([sep |-> "|"]), Some(5)>>}

\* the (partition_id, reader_options, limit) arguments tried; "1" is the
\* partition identifier of a/1 and b/1 and of no other key
LookupArgs == {<<<<"1">>, Some([sep |-> "|"]), Some(5)>>}

\* the values datetime.utcnow() may return, already formatted
Clock == {<<"T", "1">>, <<"T", "2">>}

(* --------------------------- Python values ----------------------------- *)

\* a value passed as asset_config: a dict (the configuration) or a str (a name)
PyDict(d) == [tag |-> "dict", v |-> d]
PyStr(n) == [tag |-> "str", v |-> n]

Exc(cls, msg, payload) == [cls |-> cls, msg |-> msg, payload |-> payload]

\* ReaderMethods(value): the enum member of that value
ReaderMethods(v) == [enum |-> "ReaderMethods", value |-> v]

\* what a resumed generator frame reports when it next gives up control
Yield(keys, opts, idict, calls) ==
    [kind |-> "yield", keys |-> keys, opts |-> opts, idict |-> idict, err |-> None, calls |-> calls]
Stop(idict, calls) ==
    [kind |-> "stop", keys |-> <<>>, opts |-> None, idict |-> idict, err |-> None, calls |-> calls]
Raise(e, idict, calls) ==
    [kind |-> "raise", keys |-> <<>>, opts |-> None, idict |-> idict, err |-> Some(e), calls |-> calls]

(* ------------------------- _get_asset_options -------------------------- *)

\* lines 183-194: the query of one page
QueryOptions(cfg, idict) ==
    LET q == [Bucket |-> bucket,
              Delimiter |-> Get(cfg, "delimiter", DefaultDelimiter),
              Prefix |-> Get(cfg, "prefix", None),
              MaxKeys |-> Get(cfg, "max_keys", max_keys)]
    IN  IF "continuation_token" \in DOMAIN idict
        THEN Update(q, [k \in {"ContinuationToken"} |-> idict["continuation_token"]])
        ELSE q

\* ContentKeys without the Size > 0 test
ContentKeysAnySize(contents) == [i \in 1..Len(contents) |-> contents[i].Key]

\* line 221: the keys of the page's objects of size > 0
ContentKeys(contents) ==
    LET kept == SelectSeqIdx(contents, {i \in 1..Len(contents) : contents[i].Size > 0}, 1)
    IN  [i \in 1..Len(kept) |-> kept[i].Key]

\* line 208: the page's common prefixes
PrefixKeys(prefixes) == [i \in 1..Len(prefixes) |-> prefixes[i].Prefix]

\* RegexFiltered with the test inverted (is None for is not None)
RegexFilteredInverted(cfg, keys) ==
    SelectSeqIdx(keys,
        {i \in 1..Len(keys) : ~re_match(Get(cfg, "regex_filter", MatchAll), keys[i]).ok}, 1)

\* lines 223-224: the keys matching regex_filter (default ".*")
RegexFiltered(cfg, keys) ==
    SelectSeqIdx(keys,
        {i \in 1..Len(keys) : re_match(Get(cfg, "regex_filter", MatchAll), keys[i]).ok}, 1)

\* PageKeys that reads a missing "CommonPrefixes" or "Contents" as empty
PageKeysLenient(cfg, asset_options) ==
    IF Get(cfg, "directory_assets", FALSE)
    THEN [err |-> None,
          keys |-> IF "CommonPrefixes" \in DOMAIN asset_options
                   THEN RegexFiltered(cfg, PrefixKeys(asset_options.CommonPrefixes)) ELSE <<>>]
    ELSE [err |-> None,
          keys |-> IF "Contents" \in DOMAIN asset_options
                   THEN RegexFiltered(cfg, ContentKeys(asset_options.Contents)) ELSE <<>>]

\* lines 198-224: the keys of a fetched page, or the error it raises
PageKeys(cfg, asset_options) ==
    IF Get(cfg, "directory_assets", FALSE)
    THEN IF "CommonPrefixes" \notin DOMAIN asset_options
         THEN [err |-> Some(Exc("BatchKwargsError", "common prefixes must be returned",
                           [asset_configuration |-> cfg,
                            contents |-> IF "Contents" \in DOMAIN asset_options
                                         THEN Some(asset_options.Contents) ELSE None])),
               keys |-> <<>>]
         ELSE [err |-> None, keys |-> RegexFiltered(cfg, PrefixKeys(asset_options.CommonPrefixes))]
    ELSE IF "Contents" \notin DOMAIN asset_options
         THEN [err |-> Some(Exc("BatchKwargsError", "s3 returned common prefixes",
                           [asset_configuration |-> cfg,
                            common_prefixes |-> IF "CommonPrefixes" \in DOMAIN asset_options
                                                THEN Some(asset_options.CommonPrefixes) ELSE None])),
               keys |-> <<>>]
         ELSE [err |-> None, keys |-> RegexFiltered(cfg, ContentKeys(asset_options.Contents))]

\* DelToken that leaves the token in place
DelTokenKept(idict) == idict

\* del iterator_dict["continuation_token"]
DelToken(idict) == [k \in (DOMAIN idict) \ {"continuation_token"} |-> idict[k]]

\* SetToken that stores the token following the one given
SetTokenAhead(idict, token) == Update(idict, [k \in {"continuation_token"} |-> token + 1])

\* SetToken that keeps a stored token that is further on than the one given
SetTokenFurthest(idict, token) ==
    Update(idict, [k \in {"continuation_token"} |->
                      IF Get(idict, "continuation_token", 0) > token
                      THEN idict["continuation_token"] ELSE token])

\* iterator_dict["continuation_token"] = token
SetToken(idict, token) == Update(idict, [k \in {"continuation_token"} |-> token])

\* AfterPage that stores the token of a truncated page but fetches no more
AfterPageNoRefetch(asset_config, asset_options, idict, calls) ==
    IF asset_options.IsTruncated
    THEN Stop(SetToken(idict, asset_options.NextContinuationToken), calls)
    ELSE IF "continuation_token" \in DOMAIN idict
    THEN Stop(DelToken(idict), calls)
    ELSE Stop(idict, calls)

\* Enter runs _get_asset_options from its first line (183) to the first
\* yield, return or raise; AfterPage resumes it at line 228, after the last
\* key of a page was yielded.  asset_config is the value the caller passed.
RECURSIVE Enter(_, _, _)
RECURSIVE AfterPage(_, _, _, _)

\* lines 223-235 for a page whose keys are page.keys (or that raised)
Emit(asset_config, asset_options, page, idict, calls) ==
    IF page.err # None THEN Raise(page.err[1], idict, calls)
    ELSE IF page.keys # <<>> THEN Yield(page.keys, Some(asset_options), idict, calls)
    ELSE AfterPage(asset_config, asset_options, idict, calls)

\* Fetched that stores the token of a truncated page as soon as the page is
\* fetched, before its keys are yielded
FetchedTokenFirst(asset_config, asset_options, idict, calls) ==
    Emit(asset_config, asset_options, PageKeys(asset_config.v, asset_options),
         IF asset_options.IsTruncated
         THEN SetToken(idict, asset_options.NextContinuationToken) ELSE idict, calls)

\* lines 198-235 for the page the storage call returned
Fetched(asset_config, asset_options, idict, calls) ==
    Emit(asset_config, asset_options, PageKeys(asset_config.v, asset_options), idict, calls)

Enter(asset_config, idict, calls) ==
    IF asset_config.tag # "dict"
    THEN \* asset_config.get on a str
         Raise(Exc("AttributeError", "'str' object has no attribute 'get'", asset_config.v),
               idict, calls)
    ELSE Fetched(asset_config, list_objects_v2(s3, QueryOptions(asset_config.v, idict)),
                 idict, calls + 1)

\* AfterPage that leaves the token in the cursor after the last page
AfterPageTokenLeft(asset_config, asset_options, idict, calls) ==
    IF asset_options.IsTruncated
    THEN Enter(asset_config, SetToken(idict, asset_options.NextContinuationToken), calls)
    ELSE Stop(idict, calls)

AfterPage(asset_config, asset_options, idict, calls) ==
    IF asset_options.IsTruncated
    THEN Enter(asset_config, SetToken(idict, asset_options.NextContinuationToken), calls)
    ELSE IF "continuation_token" \in DOMAIN idict
    THEN Stop(DelToken(idict), calls)
    ELSE Stop(idict, calls)

(* ---------------------------- _partitioner ----------------------------- *)

\* lines 257-278; now is the formatted value of datetime.utcnow()
partitioner(key, cfg, now) ==
    IF "partition_regex" \in DOMAIN cfg
    THEN LET match_group_id == Get(cfg, "match_group_id", 1)
             matches == re_match(cfg.partition_regex, key)
         IN  IF ~matches.ok THEN now \o <<"__unmatched">>
             ELSE IF match_group_id \in 1..Len(matches.groups)
             THEN matches.groups[match_group_id]
             ELSE now \o <<"__no_match_group">>
    ELSE LET prefix == Get(cfg, "prefix", <<>>)
         IN  IF StartsWith(key, prefix) THEN SubSeq(key, Len(prefix) + 1, Len(key)) ELSE key

(* -------------------------- _build_batch_kwargs ------------------------ *)

\* lines 165-180.  ro is the dictionary self.reader_options refers to; the
\* descriptor's reader_options is that same dictionary, so the result carries
\* the dictionary as the updates leave it.
build_batch_kwargs(key, cfg, ro, call_options, limit) ==
    LET ro1 == IF Get(cfg, "reader_options", EmptyDict) # EmptyDict
               THEN Update(ro, cfg.reader_options) ELSE ro
        ro2 == IF call_options # None THEN Update(ro1, call_options[1]) ELSE ro1
        kw0 == [s3 |-> <<"s3a://">> \o bucket \o <<"/">> \o key, reader_options |-> ro2]
        kw1 == IF reader_method # None
               THEN Update(kw0, [k \in {"reader_method"} |-> ReaderMethods(reader_method[1])])
               ELSE kw0
        kw2 == IF "reader_method" \in DOMAIN cfg
               THEN Update(kw1, [k \in {"reader_method"} |-> ReaderMethods(cfg.reader_method)])
               ELSE kw1
        kw3 == IF limit # None /\ limit # Some(0)
               THEN Update(kw2, [k \in {"limit"} |-> limit[1]]) ELSE kw2
    IN  [batch_kwargs |-> kw3, reader_options |-> ro2]

(* ------------------------------- state --------------------------------- *)

\* the generator objects the caller holds: two, for two successive passes
\* and for two passes whose steps interleave
Gens == {1, 2}

\* a slot no generator object occupies.  yielded and descs are what the
\* generator has handed out; start is the cursor it found at its first fetch
\* and seen what the generators of its asset were at that moment ("idle" for
\* one that had fetched nothing or is of another asset); calls counts its
\* storage calls; crossed tells that it once left a truncated page while the
\* cursor held another token than the one it had left there.
NoGen == [st |-> "none", asset |-> "", call_options |-> None, limit |-> None,
          keys |-> <<>>, opts |-> None, yielded |-> <<>>, descs |-> <<>>,
          err |-> None, start |-> None, seen |-> <<>>, calls |-> 0, crossed |-> FALSE]

\* the outcome of the latest call that raised or returned a value other than
\* a generator object (those are in gens)
Returned(op, name, partition_id, val, pass) ==
    [op |-> op, asset |-> name, partition_id |-> partition_id, kind |-> "return",
     val |-> Some(val), err |-> None, calls |-> pass.calls, keys |-> pass.keys]
Raised(op, name, partition_id, e, pass) ==
    [op |-> op, asset |-> name, partition_id |-> partition_id, kind |-> "raise",
     val |-> None, err |-> Some(e), calls |-> pass.calls, keys |-> pass.keys]

\* no pass was started
NoPass == [keys |-> <<>>, idict |-> EmptyDict, err |-> None, calls |-> 0]

\* S3Generator.__init__ (lines 71-89), over the configurations tried
Init ==
    /\ bucket = BucketName
    /\ reader_options = GenReaderOptions
    /\ reader_method = Some("parquet")
    /\ assets \in Registries
    /\ max_keys = MaxPageSize
    /\ iterators = EmptyDict
    /\ s3 \in Listings
    /\ gens = [i \in Gens |-> NoGen]
    /\ last = [op |-> "__init__", asset |-> "", partition_id |-> None, kind |-> "return",
               val |-> None, err |-> None, calls |-> 0, keys |-> <<>>]

\* if generator_asset not in self._iterators: self._iterators[generator_asset] = {}
WithEntry(its, name) ==
    IF name \in DOMAIN its THEN its ELSE Update(its, [k \in {name} |-> EmptyDict])

(* ------------------------------ _get_iterator -------------------------- *)

\* lines 110-131: the call returns a generator object that has not started
GetIterator(name, call_options, limit) ==
    IF name \notin DOMAIN assets
    THEN /\ last' = Raised("_get_iterator", name, None,
                        Exc("BatchKwargsError", "Unknown asset_name",
                            [generator_asset |-> name, reader_options |-> call_options,
                             limit |-> limit]), NoPass)
         /\ UNCHANGED <<bucket, reader_options, reader_method, assets, max_keys,
                        iterators, s3, gens>>
    ELSE /\ \E i \in Gens :
              /\ gens[i].st = "none"
              /\ \A j \in Gens : j < i => gens[j].st # "none"
              /\ gens' = [gens EXCEPT ![i] = [NoGen EXCEPT !.st = "created", !.asset = name,
                                                 !.call_options = call_options,
                                                 !.limit = limit]]
         /\ iterators' = WithEntry(iterators, name)
         /\ UNCHANGED <<bucket, reader_options, reader_method, assets, max_keys, s3, last>>

\* the generator g as its first fetch finds the cursor and the other generators
Began(g) ==
    IF g.st = "created"
    THEN [g EXCEPT !.start = Some(iterators[g.asset]),
                   !.seen = [j \in Gens |->
                                IF gens[j].asset # g.asset \/ gens[j].st \in {"none", "created"}
                                THEN "idle" ELSE gens[j].st]]
    ELSE g

\* the generator g as it resumes at line 228: a truncated page is a full page,
\* so the token g left in the cursor is the page's next token less the page size
Noted(g) ==
    IF /\ g.st = "suspended" /\ g.keys = <<>> /\ g.opts[1].IsTruncated
       /\ Get(iterators[g.asset], "continuation_token", 0)
             # g.opts[1].NextContinuationToken - Get(assets[g.asset], "max_keys", max_keys)
    THEN [g EXCEPT !.crossed = TRUE]
    ELSE g

\* lines 238-244: the key generator yielded r.keys[1]; built is its descriptor
Yielded(i, g, r, built) ==
    /\ reader_options' = built.reader_options
    /\ gens' = [gens EXCEPT ![i] =
                  [g EXCEPT !.st = "suspended", !.keys = Tail(r.keys), !.opts = r.opts,
                            !.yielded = Append(g.yielded, r.keys[1]),
                            !.descs = Append(g.descs, built.batch_kwargs),
                            !.calls = g.calls + r.calls]]

\* the key generator ended or raised
Ended(i, g, r) ==
    /\ reader_options' = reader_options
    /\ gens' = [gens EXCEPT ![i] =
                  [g EXCEPT !.st = IF r.kind = "stop" THEN "exhausted" ELSE "raised",
                            !.keys = <<>>, !.opts = None, !.err = r.err,
                            !.calls = g.calls + r.calls]]

\* Resumed with one iterator_dict shared by all the assets
ResumedOneCursor(i, g, r) ==
    /\ iterators' = [n \in DOMAIN iterators |-> r.idict]
    /\ IF r.kind = "yield"
       THEN Yielded(i, g, r, build_batch_kwargs(r.keys[1], assets[g.asset], reader_options,
                                                g.call_options, g.limit))
       ELSE Ended(i, g, r)
    /\ UNCHANGED <<bucket, reader_method, assets, max_keys, s3, last>>

\* the generator g was resumed and gave up control with r
Resumed(i, g, r) ==
    /\ iterators' = [iterators EXCEPT ![g.asset] = r.idict]
    /\ IF r.kind = "yield"
       THEN Yielded(i, g, r, build_batch_kwargs(r.keys[1], assets[g.asset], reader_options,
                                                g.call_options, g.limit))
       ELSE Ended(i, g, r)
    /\ UNCHANGED <<bucket, reader_method, assets, max_keys, s3, last>>

\* NextDescriptor whose first fetch carries no token, whatever the cursor holds
NextDescriptorFromStart(i) ==
    /\ gens[i].st \in {"created", "suspended"}
    /\ Resumed(i, Noted(Began(gens[i])),
               IF gens[i].st = "created"
               THEN Enter(PyDict(assets[gens[i].asset]), DelToken(iterators[gens[i].asset]), 0)
               ELSE IF gens[i].keys # <<>>
               THEN Yield(gens[i].keys, gens[i].opts, iterators[gens[i].asset], 0)
               ELSE AfterPage(PyDict(assets[gens[i].asset]), gens[i].opts[1],
                              iterators[gens[i].asset], 0))

\* next(g) on the generator of _build_asset_iterator (lines 237-244): run the
\* key generator to its next yield and build the descriptor of that key
NextDescriptor(i) ==
    /\ gens[i].st \in {"created", "suspended"}
    /\ Resumed(i, Noted(Began(gens[i])),
               IF gens[i].st = "created"
               THEN Enter(PyDict(assets[gens[i].asset]), iterators[gens[i].asset], 0)
               ELSE IF gens[i].keys # <<>>
               THEN Yield(gens[i].keys, gens[i].opts, iterators[gens[i].asset], 0)
               ELSE AfterPage(PyDict(assets[gens[i].asset]), gens[i].opts[1],
                              iterators[gens[i].asset], 0))

(* ----------------- the calls that consume a whole pass ----------------- *)

\* for key in self._get_asset_options(...): the keys a caller that never
\* stops receives from the frame result r on, and how the pass ends
RECURSIVE Drain(_, _, _)
Drain(asset_config, r, acc) ==
    IF r.kind = "yield"
    THEN Drain(asset_config, AfterPage(asset_config, r.opts[1], r.idict, r.calls), acc \o r.keys)
    ELSE [keys |-> acc, idict |-> r.idict, err |-> r.err, calls |-> r.calls]

\* lines 148-152: the loop body applied to keys[i..]; kw is batch_kwargs
RECURSIVE ScanPartition(_, _, _, _, _, _, _, _)
ScanPartition(keys, i, cfg, partition_id, call_options, limit, nows, acc) ==
    IF i > Len(keys) THEN acc
    ELSE IF partitioner(keys[i], cfg, nows[i]) = partition_id
    THEN LET built == build_batch_kwargs(keys[i], cfg, acc.reader_options, call_options, limit)
         IN  ScanPartition(keys, i + 1, cfg, partition_id, call_options, limit, nows,
                           [kw |-> Some(built.batch_kwargs),
                            reader_options |-> built.reader_options])
    ELSE ScanPartition(keys, i + 1, cfg, partition_id, call_options, limit, nows, acc)

\* lines 154-163: the pass is over and scan is what the loop left
LookupDone(name, partition_id, its, pass, scan) ==
    /\ iterators' = [its EXCEPT ![name] = pass.idict]
    /\ reader_options' = scan.reader_options
    /\ last' = IF pass.err # None
               THEN Raised("build_batch_kwargs_from_partition_id", name, Some(partition_id),
                           pass.err[1], pass)
               ELSE IF scan.kw = None
               THEN Raised("build_batch_kwargs_from_partition_id", name, Some(partition_id),
                           Exc("BatchKwargsError", "Unable to identify partition",
                               <<partition_id, name>>), pass)
               ELSE Returned("build_batch_kwargs_from_partition_id", name, Some(partition_id),
                             scan.kw[1], pass)
    /\ UNCHANGED <<bucket, reader_method, assets, max_keys, s3, gens>>

\* lines 148-152 over the keys of the pass
Lookup(name, partition_id, call_options, limit, nows, its, pass) ==
    LookupDone(name, partition_id, its, pass,
               ScanPartition(pass.keys, 1, assets[name], partition_id, call_options, limit,
                             nows, [kw |-> None, reader_options |-> reader_options]))

\* lines 144-149: the pass is given generator_asset, the name, as asset_config
LookupPass(name, partition_id, call_options, limit, nows, its) ==
    Lookup(name, partition_id, call_options, limit, nows, its,
           Drain(PyStr(name), Enter(PyStr(name), its[name], 0), <<>>))

\* lines 137-163
BuildBatchKwargsFromPartitionId(name, partition_id, call_options, limit, nows) ==
    IF name \notin DOMAIN assets
    THEN /\ last' = Raised("build_batch_kwargs_from_partition_id", name, Some(partition_id),
                        Exc("GreatExpectationsError", "No asset config found for asset", name),
                        NoPass)
         /\ UNCHANGED <<bucket, reader_options, reader_method, assets, max_keys,
                        iterators, s3, gens>>
    ELSE LookupPass(name, partition_id, call_options, limit, nows, WithEntry(iterators, name))

\* lines 251-255: the partition identifiers of the keys of the pass
ListDone(name, nows, its, pass) ==
    /\ iterators' = [its EXCEPT ![name] = pass.idict]
    /\ last' = IF pass.err # None
               THEN Raised("get_available_partition_ids", name, None, pass.err[1], pass)
               ELSE Returned("get_available_partition_ids", name, None,
                             [i \in 1..Len(pass.keys) |->
                                 partitioner(pass.keys[i], assets[name], nows[i])], pass)
    /\ UNCHANGED <<bucket, reader_options, reader_method, assets, max_keys, s3, gens>>

\* lines 247-250: the cursor entry is made before the registry is consulted
ListPass(name, nows, its) ==
    IF name \notin DOMAIN assets
    THEN /\ iterators' = its
         /\ last' = Raised("get_available_partition_ids", name, None,
                        Exc("KeyError", "", name), NoPass)
         /\ UNCHANGED <<bucket, reader_options, reader_method, assets, max_keys, s3, gens>>
    ELSE \* line 253: the pass is given generator_asset, the name, as asset_config
         ListDone(name, nows, its, Drain(PyStr(name), Enter(PyStr(name), its[name], 0), <<>>))

\* lines 246-255
GetAvailablePartitionIds(name, nows) == ListPass(name, nows, WithEntry(iterators, name))

\* the formatted timestamps of one call, one for each key a pass can yield
\* (the clock is read as not advancing within a call); the clock is read
\* only for an asset with partition_regex (lines 258-271)
Nows(name) ==
    {[i \in 1..Len(Universe) |-> now] :
        now \in IF name \in DOMAIN assets /\ "partition_regex" \in DOMAIN assets[name]
                THEN Clock ELSE {CHOOSE t \in Clock : TRUE}}

Next ==
    \/ \E name \in Names, args \in CallArgs : GetIterator(name, args[1], args[2])
    \/ \E i \in Gens : NextDescriptor(i)
    \/ \E name \in Names, args \in LookupArgs : \E nows \in Nows(name) :
           BuildBatchKwargsFromPartitionId(name, args[1], args[2], args[3], nows)
    \/ \E name \in Names : \E nows \in Nows(name) : GetAvailablePartitionIds(name, nows)

Spec == Init /\ [][Next]_vars

\* the generator object i has not ended: next() can be called on it
Active(i) == gens[i].st \in {"created", "suspended"}

\* the consumers of the sequences: they ask for sequences of the registered
\* assets and pull from them
Pulling ==
    \/ \E name \in DOMAIN assets : GetIterator(name, None, None)
    \/ \E i \in Gens : NextDescriptor(i)

\* a consumer keeps pulling: it calls next() on its generator object as long
\* as the object has not ended.  The condition is weak fairness of
\* NextDescriptor(i), written out: a call of next() is possible exactly when
\* the object is active, and every call changes the object.
KeepsPulling(i) == []<>(~Active(i)) \/ []<><<NextDescriptor(i)>>_vars

LiveSpec == Init /\ [][Pulling]_vars /\ \A i \in Gens : KeepsPulling(i)

(* ------------------------------ properties ----------------------------- *)

HasToken(name) == name \in DOMAIN iterators /\ "continuation_token" \in DOMAIN iterators[name]

\* the generator found no token in its asset's cursor at its first fetch
StartedFresh(g) == g.start = Some(EmptyDict)

\* what a backend that returns everything in one untruncated page makes of
\* the asset: the keys of lines 198-224 for that page, or the error
OnePage(cfg) ==
    PageKeys(cfg, list_objects_v2(s3, [QueryOptions(cfg, EmptyDict) EXCEPT !.MaxKeys = Len(Universe)]))

Location(key) == <<"s3a://">> \o bucket \o <<"/">> \o key

\* the entries of the bucket the asset's query lists
Listed(cfg) == {s3[n] : n \in {m \in 1..Len(s3) : StartsWith(s3[m].Key, Get(cfg, "prefix", None))}}

\* C1: truncation transparency.  At the step that exhausts a key sequence
\* whose first fetch found no token, the keys it has yielded are exactly, in
\* order, the keys of the single untruncated page, and the asset's cursor
\* holds no continuation token.
C1_TruncationTransparency ==
    [][\A i \in Gens :
          (gens[i].st # "exhausted" /\ gens'[i].st = "exhausted" /\ StartedFresh(gens'[i]))
          => LET one == OnePage(assets[gens'[i].asset])
             IN  /\ one.err = None
                 /\ gens'[i].yielded = one.keys
                 /\ "continuation_token" \notin DOMAIN iterators'[gens'[i].asset]]_vars

\* a fresh pass exhausted after three storage calls and two or more keys
C1_Witness ==
    \E i \in Gens :
        /\ gens[i].st = "exhausted" /\ StartedFresh(gens[i])
        /\ gens[i].calls >= 3 /\ Len(gens[i].yielded) >= 2
        /\ ~HasToken(gens[i].asset)

\* C2: filter soundness.  Every key surfaced for an object-mode asset, by a
\* generator (as key and as descriptor) or by a call that ran a whole pass,
\* is the key of a listed object of size > 0 and matches the asset's
\* regex_filter.
SoundKey(cfg, key) ==
    /\ \E e \in Listed(cfg) : e.kind = "obj" /\ e.Key = key /\ e.Size > 0
    /\ re_match(Get(cfg, "regex_filter", MatchAll), key).ok

C2_FilterSoundness ==
    /\ \A i \in Gens :
          (gens[i].st # "none" /\ ~Get(assets[gens[i].asset], "directory_assets", FALSE))
          => /\ \A n \in 1..Len(gens[i].yielded) :
                    SoundKey(assets[gens[i].asset], gens[i].yielded[n])
             /\ \A n \in 1..Len(gens[i].descs) :
                    \E e \in Listed(assets[gens[i].asset]) :
                        /\ gens[i].descs[n].s3 = Location(e.Key)
                        /\ SoundKey(assets[gens[i].asset], e.Key)
    /\ (last.asset \in DOMAIN assets /\ ~Get(assets[last.asset], "directory_assets", FALSE))
          => \A n \in 1..Len(last.keys) : SoundKey(assets[last.asset], last.keys[n])

\* an object-mode pass over a bucket holding a zero-size object and an object
\* the filter rejects, both under the prefix, has surfaced a key
C2_Witness ==
    \E i \in Gens :
        LET cfg == assets[gens[i].asset]
        IN  /\ gens[i].st = "exhausted" /\ ~Get(cfg, "directory_assets", FALSE)
            /\ Len(gens[i].descs) >= 1
            /\ \E e \in Listed(cfg) : e.kind = "obj" /\ e.Size = 0
            /\ \E e \in Listed(cfg) : e.kind = "obj" /\ e.Size > 0
                                       /\ ~re_match(Get(cfg, "regex_filter", MatchAll), e.Key).ok

\* the locations of the descriptors a generator has yielded
Locations(g) == {g.descs[n].s3 : n \in 1..Len(g.descs)}

\* C3 as stated: with regex_filter absent, every key the backend lists for
\* the asset has surfaced as a descriptor once a fresh pass is exhausted.
C3_EveryListedKeySurfaces ==
    \A i \in Gens :
        (gens[i].st = "exhausted" /\ StartedFresh(gens[i])
            /\ "regex_filter" \notin DOMAIN assets[gens[i].asset])
        => \A e \in Listed(assets[gens[i].asset]) :
               e.kind = "obj" => Location(e.Key) \in Locations(gens[i])

\* C3 amended: with regex_filter absent, once a fresh pass is exhausted every
\* candidate has surfaced as a descriptor: every listed object of size > 0
\* for an object-mode asset, every common prefix for a directory asset.
C3_EveryCandidateSurfaces ==
    \A i \in Gens :
        (gens[i].st = "exhausted" /\ StartedFresh(gens[i])
            /\ "regex_filter" \notin DOMAIN assets[gens[i].asset])
        => \A e \in Listed(assets[gens[i].asset]) :
               (IF Get(assets[gens[i].asset], "directory_assets", FALSE)
                THEN e.kind = "pre" ELSE e.kind = "obj" /\ e.Size > 0)
               => Location(e.Key) \in Locations(gens[i])

\* a fresh pass of an asset without regex_filter, exhausted over a listing of
\* two pages with an object of size > 0 and a zero-size object
C3_Witness ==
    \E i \in Gens :
        LET cfg == assets[gens[i].asset]
        IN  /\ gens[i].st = "exhausted" /\ StartedFresh(gens[i])
            /\ "regex_filter" \notin DOMAIN cfg
            /\ gens[i].calls >= 2 /\ Len(gens[i].descs) >= 2
            /\ \E e \in Listed(cfg) : e.kind = "obj" /\ e.Size = 0

\* C4: idempotence of listing.  When a pass begins after a fresh pass of the
\* same asset was exhausted, and no pass of that asset is left unfinished,
\* it finds no token and, once exhausted, has yielded the same keys in the
\* same order as the earlier pass.
C4_Idempotence ==
    \A i \in Gens : \A j \in Gens :
        (/\ i # j
         /\ gens[i].st = "exhausted" /\ StartedFresh(gens[i])
         /\ gens[j].start # None /\ gens[j].asset = gens[i].asset
         /\ gens[j].seen[i] = "exhausted"
         /\ \A k \in Gens : gens[j].seen[k] \in {"idle", "exhausted"})
        => /\ StartedFresh(gens[j])
           /\ gens[j].st = "exhausted" => gens[j].yielded = gens[i].yielded

\* two successive exhausted passes of one asset, each of two or more pages
C4_Witness ==
    \E i \in Gens : \E j \in Gens :
        /\ i # j /\ gens[j].asset = gens[i].asset
        /\ gens[i].st = "exhausted" /\ StartedFresh(gens[i])
        /\ gens[j].st = "exhausted" /\ gens[j].seen[i] = "exhausted"
        /\ gens[i].calls >= 2 /\ gens[j].calls >= 2 /\ Len(gens[j].yielded) >= 2

\* the whole pass of an asset from a cursor without token, as a caller that
\* passes the asset's configuration receives it
FullPass(cfg) == Drain(PyDict(cfg), Enter(PyDict(cfg), EmptyDict, 0), <<>>)

\* the positions of the keys of a pass whose partition identifier is pid
Matching(cfg, keys, pid) ==
    {n \in 1..Len(keys) : \E now \in Clock : partitioner(keys[n], cfg, now) = pid}

IsLookup == last.op = "build_batch_kwargs_from_partition_id" /\ last.asset \in DOMAIN assets

\* C5 as stated: a lookup on a registered asset whose pass has a key with the
\* requested partition identifier returns the descriptor of the last such
\* key of the pass.
C5_LastMatchReturned ==
    IsLookup =>
        LET cfg == assets[last.asset]
            full == FullPass(cfg)
            m == Matching(cfg, full.keys, last.partition_id[1])
        IN  (full.err = None /\ m # {})
            => /\ last.kind = "return"
               /\ last.val[1].s3 = Location(full.keys[CHOOSE n \in m : \A k \in m : k <= n])

\* C6 as stated: a lookup on a registered asset raises the partition-not-found
\* error exactly when no key of the whole pass has the requested partition
\* identifier, and only after the last page was fetched.
C6_NotFoundExactly ==
    IsLookup =>
        LET cfg == assets[last.asset]
            full == FullPass(cfg)
            m == Matching(cfg, full.keys, last.partition_id[1])
            notFound == /\ last.kind = "raise"
                        /\ last.err[1].cls = "BatchKwargsError"
                        /\ last.err[1].msg = "Unable to identify partition"
        IN  full.err = None
            => /\ notFound <=> m = {}
               /\ notFound => last.calls = full.calls

\* C7 as stated: get_available_partition_ids on a registered asset returns,
\* in listing order, the partition identifier of every key of the whole
\* pass; without partition_regex that is the key less the asset's prefix.
C7_PartitionIdsListed ==
    (last.op = "get_available_partition_ids" /\ last.asset \in DOMAIN assets) =>
        LET cfg == assets[last.asset]
            full == FullPass(cfg)
        IN  full.err = None
            => /\ last.kind = "return"
               /\ Len(last.val[1]) = Len(full.keys)
               /\ "partition_regex" \notin DOMAIN cfg
                  => \A n \in 1..Len(full.keys) :
                         Get(cfg, "prefix", <<>>) \o last.val[1][n] = full.keys[n]

\* generator-level options, overridden by the asset's, then by the call's
Merged(cfg, call_options) ==
    Update(Update(GenReaderOptions, Get(cfg, "reader_options", EmptyDict)),
           IF call_options = None THEN EmptyDict ELSE call_options[1])

\* C8 as stated: the reader_options of every descriptor built are the
\* generator-level options overridden by the asset's and then by the call's.
C8_ReaderOptionsMerged ==
    \A i \in Gens : \A n \in 1..Len(gens[i].descs) :
        gens[i].descs[n].reader_options = Merged(assets[gens[i].asset], gens[i].call_options)

\* C9 as stated: no step changes the bucket, the asset configurations or the
\* generator-level reader_options.
C9_ConfigurationImmutable ==
    [][bucket' = bucket /\ assets' = assets /\ reader_options' = reader_options]_vars

\* C10 as stated: a query naming an unregistered asset raises the library's
\* unknown-asset error at the call, having made no storage call.
C10_UnknownAssetFailsAtOnce ==
    /\ \A i \in Gens : gens[i].st # "none" => gens[i].asset \in DOMAIN assets
    /\ (last.op # "__init__" /\ last.asset \notin DOMAIN assets)
       => /\ last.kind = "raise"
          /\ last.err[1].cls \in {"BatchKwargsError", "GreatExpectationsError"}
          /\ last.err[1].msg \in {"Unknown asset_name", "No asset config found for asset"}
          /\ last.calls = 0

(* ------------------------- passes, page by page ------------------------ *)

\* the entries the backend holds for the asset, and the asset's page size
Entries(cfg) == Under(s3, Get(cfg, "prefix", None))
PageSize(cfg) == Get(cfg, "max_keys", max_keys)

\* the entries t+1 .. t+PageSize of the asset: the page a fetch at token t lists
SliceOf(entries, size, t) == SubSeq(entries, t + 1, Min(t + size, Len(entries)))
Slice(cfg, t) == SliceOf(Entries(cfg), PageSize(cfg), t)

HasKind(slice, kind) == \E n \in 1..Len(slice) : slice[n].kind = kind

\* the page lacks what the asset's listing mode reads
Lacking(cfg, slice) ==
    IF Get(cfg, "directory_assets", FALSE) THEN ~HasKind(slice, "pre") ELSE ~HasKind(slice, "obj")

\* the token of the first lacking page of a pass whose first fetch is at
\* token t, or -1 if the pass meets none
RECURSIVE FirstLackingIn(_, _, _, _)
FirstLackingIn(cfg, entries, size, t) ==
    IF Lacking(cfg, SliceOf(entries, size, t)) THEN t
    ELSE IF t + size < Len(entries) THEN FirstLackingIn(cfg, entries, size, t + size)
    ELSE -1
FirstLacking(cfg, t) == FirstLackingIn(cfg, Entries(cfg), PageSize(cfg), t)

\* the token a generator's first fetch carried (0 for none)
StartToken(g) == Get(g.start[1], "continuation_token", 0)

\* the keys of the entries 1 .. t of the asset
KeysUpTo(entries, t) == {entries[n].Key : n \in 1..Min(t, Len(entries))}
KeysBefore(cfg, t) == KeysUpTo(Entries(cfg), t)

\* the items of a page as the error of a directory asset carries them, and
\* the common prefixes as the error of an object-mode asset carries them
ItemsOf(slice) ==
    IF HasKind(slice, "obj")
    THEN Some([n \in 1..Len(Objects(slice)) |->
                 [Key |-> Objects(slice)[n].Key, Size |-> Objects(slice)[n].Size]])
    ELSE None
CommonPrefixesOf(slice) ==
    IF HasKind(slice, "pre")
    THEN Some([n \in 1..Len(Prefixes(slice)) |-> [Prefix |-> Prefixes(slice)[n].Key]])
    ELSE None

\* the page at token p is a mismatch of listing mode: no common prefix for a
\* directory asset, common prefixes and no item for an object-mode asset
Mismatch(cfg, p) ==
    LET slice == Slice(cfg, p)
    IN  IF Get(cfg, "directory_assets", FALSE)
        THEN ~HasKind(slice, "pre")
        ELSE ~HasKind(slice, "obj") /\ HasKind(slice, "pre")

\* g ended with the configuration error that carries cfg and the page at p
RaisedMismatch(g, cfg, p) ==
    /\ g.st = "raised"
    /\ g.err[1].cls = "BatchKwargsError"
    /\ g.err[1].payload.asset_configuration = cfg
    /\ IF Get(cfg, "directory_assets", FALSE)
       THEN g.err[1].payload.contents = ItemsOf(Slice(cfg, p))
       ELSE g.err[1].payload.common_prefixes = CommonPrefixesOf(Slice(cfg, p))

\* C11: listing-mode mismatch.  When the first page of a pass that lacks what
\* the listing mode reads is a mismatch (a page without common prefix for a
\* directory asset, a page with common prefixes and no item for an object-mode
\* asset), on whichever page of the pass it comes, the pass yields no key of
\* that page or of a later one and, once it has fetched that page, has
\* raised the configuration error carrying the asset configuration and the
\* items (the common prefixes) of that page.
C11_ModeMismatchRaises ==
    \A i \in Gens :
        gens[i].start # None =>
            LET cfg == assets[gens[i].asset]
                p == FirstLacking(cfg, StartToken(gens[i]))
            IN  (p >= 0 /\ Mismatch(cfg, p))
                => /\ {gens[i].yielded[n] : n \in 1..Len(gens[i].yielded)}
                         \subseteq KeysBefore(cfg, p)
                   /\ gens[i].st # "exhausted"
                   /\ gens[i].st = "raised" => RaisedMismatch(gens[i], cfg, p)

\* an object-mode pass raised the configuration error on its second page,
\* after it had yielded a key of the first, and the error carries the common
\* prefixes of that page
C11_Witness ==
    \E i \in Gens :
        /\ gens[i].st = "raised" /\ gens[i].calls >= 2 /\ Len(gens[i].yielded) >= 1
        /\ ~Get(assets[gens[i].asset], "directory_assets", FALSE)
        /\ gens[i].err[1].payload.common_prefixes # None

\* a directory pass raised the configuration error carrying the page's items
DirectoryMismatchSeen ==
    \E i \in Gens :
        /\ gens[i].st = "raised"
        /\ Get(assets[gens[i].asset], "directory_assets", FALSE)
        /\ gens[i].err[1].payload.contents # None

(* ------------------------- passes run on their own --------------------- *)

\* the pass of a generator as it runs when nothing else touches the cursor it
\* found at its first fetch
AlonePass(g) ==
    Drain(PyDict(assets[g.asset]), Enter(PyDict(assets[g.asset]), g.start[1], 0), <<>>)

\* the descriptors of keys[n..] as _build_batch_kwargs builds them when no
\* other sequence has built one since the generator was constructed
RECURSIVE AloneDescs(_, _, _, _, _, _)
AloneDescs(keys, n, cfg, ro, call_options, limit) ==
    IF n > Len(keys) THEN <<>>
    ELSE <<build_batch_kwargs(keys[n], cfg, ro, call_options, limit).batch_kwargs>>
         \o AloneDescs(keys, n + 1, cfg,
                       build_batch_kwargs(keys[n], cfg, ro, call_options, limit).reader_options,
                       call_options, limit)

IsPrefix(a, b) == Len(a) <= Len(b) /\ SubSeq(b, 1, Len(a)) = a

\* C12 as stated: when the sequences of two different assets are interleaved,
\* each has yielded the keys and built the descriptors it yields when run
\* alone, and once it has ended it leaves its asset's cursor as it does alone.
C12_DifferentAssetsIndependent ==
    \A i \in Gens : \A j \in Gens :
        (gens[i].start # None /\ gens[j].start # None /\ gens[i].asset # gens[j].asset)
        => /\ IsPrefix(gens[i].yielded, AlonePass(gens[i]).keys)
           /\ gens[i].descs = AloneDescs(gens[i].yielded, 1, assets[gens[i].asset],
                                         GenReaderOptions, gens[i].call_options, gens[i].limit)
           /\ gens[i].st \in {"exhausted", "raised"}
              => iterators[gens[i].asset] = AlonePass(gens[i]).idict

(* --------------------------- resumption -------------------------------- *)

\* the entry is a candidate of the asset: it is of the kind the listing mode
\* reads, not an empty object, and its key matches regex_filter
Candidate(cfg, e) ==
    /\ IF Get(cfg, "directory_assets", FALSE) THEN e.kind = "pre" ELSE e.kind = "obj" /\ e.Size > 0
    /\ re_match(Get(cfg, "regex_filter", MatchAll), e.Key).ok

\* the keys of the candidates among the entries t+1 .. of the asset, in order
KeysOf(cfg, entries, t) ==
    LET kept == SelectSeqIdx(entries,
                    {n \in 1..Len(entries) : n > t /\ Candidate(cfg, entries[n])}, 1)
    IN  [n \in 1..Len(kept) |-> kept[n].Key]
KeysFrom(cfg, t) == KeysOf(cfg, Entries(cfg), t)

\* C13: resumption from the cursor.  The first storage call of a pass carries
\* the token the asset's cursor holds at that moment (none if it holds
\* none): the keys the pass yields are, in order, the keys of the candidates
\* from that token's page on, all of them once the pass is exhausted, and no
\* key of an earlier page.
C13_ResumesFromCursor ==
    \A i \in Gens :
        gens[i].start # None =>
            LET rest == KeysFrom(assets[gens[i].asset], StartToken(gens[i]))
            IN  /\ IsPrefix(gens[i].yielded, rest)
                /\ gens[i].st = "exhausted" => gens[i].yielded = rest

\* a pass that found a token, left by a pass stopped early, is exhausted and
\* has not yielded a key of the pages before that token
C13_Witness ==
    \E i \in Gens :
        /\ gens[i].st = "exhausted" /\ StartToken(gens[i]) > 0
        /\ Len(gens[i].yielded) >= 1
        /\ Len(gens[i].yielded) < Len(KeysFrom(assets[gens[i].asset], 0))

\* C14: no key is lost by stopping early.  When a pass that found no token is
\* stopped partway and a second pass of the same asset, begun while the first
\* stood stopped, is exhausted, the second pass has yielded the keys of the
\* asset from some point on and the first pass every key before that point:
\* keys may be repeated, none is skipped.
C14_NoKeyLostByStopping ==
    \A i \in Gens : \A j \in Gens :
        (/\ i # j /\ gens[j].start # None /\ gens[j].asset = gens[i].asset
         /\ gens[i].start # None /\ StartedFresh(gens[i])
         /\ gens[j].seen[i] = "suspended"
         /\ gens[j].st = "exhausted")
        => LET all == KeysFrom(assets[gens[i].asset], 0)
               d == Len(all) - Len(gens[j].yielded)
           IN  /\ d >= 0
               /\ SubSeq(all, d + 1, Len(all)) = gens[j].yielded
               /\ IsPrefix(SubSeq(all, 1, d), gens[i].yielded)

\* a pass stopped on its second page, with a key of each page yielded, and a
\* second pass, exhausted, that repeated one key and missed the earlier one
C14_Witness ==
    \E i \in Gens : \E j \in Gens :
        /\ i # j /\ gens[j].asset = gens[i].asset
        /\ gens[i].st = "suspended" /\ StartedFresh(gens[i])
        /\ gens[i].calls >= 2 /\ Len(gens[i].yielded) >= 2
        /\ gens[j].st = "exhausted" /\ gens[j].seen[i] = "suspended"
        /\ StartToken(gens[j]) > 0
        /\ Len(gens[j].yielded) >= 1
        /\ Len(gens[j].yielded) < Len(KeysFrom(assets[gens[i].asset], 0))

\* a pass stopped in the middle of a truncated page, then a second pass
StoppedMidPage ==
    \E i \in Gens : \E j \in Gens :
        /\ i # j /\ gens[j].asset = gens[i].asset
        /\ gens[i].st = "suspended" /\ StartedFresh(gens[i])
        /\ gens[i].keys # <<>> /\ gens[i].opts[1].IsTruncated
        /\ gens[j].st = "exhausted" /\ gens[j].seen[i] = "suspended"

(* ------------------------------ the cursor store ----------------------- *)

\* the cursor entry of an asset name in a cursor store, None if it has none
Entry(its, name) == IF name \in DOMAIN its THEN Some(its[name]) ELSE None

\* the step is a step of an operation on the asset name: the call that asks
\* for its sequence, a step of one of its sequences, or a call that runs a
\* whole pass of it
StepOn(name) ==
    \/ \E args \in CallArgs : GetIterator(name, args[1], args[2])
    \/ \E i \in Gens : gens[i].asset = name /\ NextDescriptor(i)
    \/ \E args \in LookupArgs : \E nows \in Nows(name) :
           BuildBatchKwargsFromPartitionId(name, args[1], args[2], args[3], nows)
    \/ \E nows \in Nows(name) : GetAvailablePartitionIds(name, nows)

\* C15: cursor frame.  A step that creates, sets or clears the cursor entry of
\* an asset name is a step of an operation on that name; every step of an
\* operation on another name leaves the entry as it is.
C15_CursorFrame ==
    [][\A name \in Names :
          Entry(iterators', name) # Entry(iterators, name) => StepOn(name)]_vars

\* the cursor of one asset holds the token its stopped sequence stored, and a
\* sequence of the other asset has run to exhaustion
C15_Witness ==
    \E i \in Gens : \E j \in Gens :
        /\ gens[i].st = "suspended" /\ HasToken(gens[i].asset)
        /\ gens[j].st = "exhausted" /\ gens[j].asset # gens[i].asset
        /\ Len(gens[j].yielded) >= 1

(* ------------------- sequences of one asset, interleaved --------------- *)

\* C16: same-asset interleaving is unsafe.  A sequence consumed to exhaustion
\* that has not yielded every key of its asset found a token at its first
\* fetch, and a sequence of the same asset stood stopped partway at that
\* moment: it is the token that sequence wrote which made it start late.
\* C16_Witness is such an interleaving.
C16_IncompleteByForeignToken ==
    \A i \in Gens :
        (gens[i].st = "exhausted" /\ gens[i].yielded # KeysFrom(assets[gens[i].asset], 0))
        => /\ StartToken(gens[i]) > 0
           /\ \E j \in Gens : j # i /\ gens[j].asset = gens[i].asset
                                /\ gens[i].seen[j] = "suspended"

\* two sequences of one asset, their steps interleaved, both consumed to
\* exhaustion: the one begun first has yielded every key, the other, begun
\* while the first stood on a later page, has not
C16_Witness ==
    \E i \in Gens : \E j \in Gens :
        /\ i # j /\ gens[j].asset = gens[i].asset
        /\ gens[i].st = "exhausted" /\ gens[i].seen[j] = "suspended" /\ StartToken(gens[i]) > 0
        /\ gens[i].yielded # KeysFrom(assets[gens[i].asset], 0)
        /\ gens[j].st = "exhausted" /\ gens[j].yielded = KeysFrom(assets[gens[i].asset], 0)

\* the page that follows the page a suspended generator is on starts at that
\* page's next token; there is none after a page that is not truncated
OwnNext(g) ==
    IF g.opts[1].IsTruncated THEN g.opts[1].NextContinuationToken
    ELSE Len(Entries(assets[g.asset]))

\* the keys a generator has yet to yield when it is resumed, if no other
\* sequence counts: what is left of its page, then the keys after that page
Ahead(g) ==
    IF g.st = "created" THEN KeysFrom(assets[g.asset], 0)
    ELSE g.keys \o KeysFrom(assets[g.asset], OwnNext(g))

\* C17: a sequence whose first fetch finds no token yields every key of its
\* asset once and in order, however the steps of other sequences of the asset
\* fall between its own.  Each of its steps yields the next key of the asset
\* after those it has yielded, whatever token the cursor holds at that
\* moment, and it is exhausted only when it has yielded them all.
C17_FreshPassComplete ==
    [][\A i \in Gens :
          (gens'[i] # gens[i] /\ gens[i].st \in {"created", "suspended"}
              /\ StartedFresh(gens'[i]))
          => IF gens'[i].st = "suspended"
             THEN /\ Ahead(gens[i]) # <<>>
                  /\ gens'[i].yielded = Append(gens[i].yielded, Ahead(gens[i])[1])
                  /\ IsPrefix(gens'[i].yielded, KeysFrom(assets[gens[i].asset], 0))
             ELSE \/ gens'[i].st = "raised"
                  \/ /\ gens'[i].st = "exhausted" /\ Ahead(gens[i]) = <<>>
                     /\ gens'[i].yielded = KeysFrom(assets[gens[i].asset], 0)]_vars

\* a sequence that found no token has yielded all three keys of its asset,
\* one to a page, and left a page while the cursor held the token of another
\* sequence
C17_Witness ==
    \E i \in Gens :
        /\ gens[i].st = "exhausted" /\ StartedFresh(gens[i]) /\ gens[i].crossed
        /\ gens[i].calls >= 3 /\ Len(gens[i].yielded) >= 3
        /\ gens[i].yielded = KeysFrom(assets[gens[i].asset], 0)

(* ------------------------------ termination ---------------------------- *)

Over(i) == gens[i].st \in {"exhausted", "raised"}

\* C18: termination.  The backend reports a page that is not truncated after
\* finitely many pages, and a sequence whose consumer keeps pulling ends: it
\* is exhausted, or has raised the error of a page.  At the step that
\* exhausts it the cursor of its asset holds no continuation token.
C18_Termination ==
    /\ \A i \in Gens : Active(i) ~> Over(i)
    /\ [][\A i \in Gens :
            (gens[i].st # "exhausted" /\ gens'[i].st = "exhausted")
            => "continuation_token" \notin DOMAIN iterators'[gens'[i].asset]]_vars

\* two sequences are exhausted, one of them after three pages and one of them
\* begun from a token; the cursors hold no token
C18_Witness ==
    /\ \A i \in Gens : gens[i].st = "exhausted" /\ ~HasToken(gens[i].asset)
    /\ \E i \in Gens : gens[i].calls >= 3
    /\ \E i \in Gens : StartToken(gens[i]) > 0

\* C19 as stated: the cursor store has entries only for the asset names the
\* registry holds.
C19_CursorsOfRegisteredAssetsOnly == DOMAIN iterators \subseteq DOMAIN assets

\* C20 as stated: the sequence of an object-mode asset raises the
\* configuration error only on a page that carries common prefixes and no
\* item; a page that carries neither raises nothing, and the sequence that
\* meets no other page than such a one is exhausted without a key.
C20_EmptyPageRaisesNothing ==
    \A i \in Gens :
        (gens[i].start # None /\ ~Get(assets[gens[i].asset], "directory_assets", FALSE)
            /\ gens[i].st = "raised")
        => /\ gens[i].err[1].payload.common_prefixes # None
           /\ HasKind(Slice(assets[gens[i].asset],
                            FirstLacking(assets[gens[i].asset], StartToken(gens[i]))), "pre")

=============================================================================
